---- MODULE Spec2Model ----
(***************************************************************************)
(* Model of Rendering::OurSolarSystem (OurSolarSystem.h / OurSolarSystem   *)
(* .cpp): the ten celestial bodies, the speed controls, the per-tick orbit *)
(* integrator and the dirty-flag driven draw.                              *)
(*                                                                         *)
(* Number representation.  The source computes in binary32.                *)
(*  - Earth.OrbitalPeriod and OrbitalSpeed decide the clamps of SpeedUp    *)
(*    and SlowDown, so they are kept as exact binary32 values, written as  *)
(*    integers in units of 2^-37 (every binary32 in the range the clamps   *)
(*    allow is a multiple of 2^-37); F32Round rounds a sum to 24           *)
(*    significant bits, ties to even, as the hardware does.                *)
(*  - the dimensionless coefficients, rotational periods, rotations, tilts *)
(*    and scales are fixed point in units of 10^-4; orbital distances and  *)
(*    translations are in units of 10^-2; orbital angles are in units of   *)
(*    2^-27 rad.  Products truncate, as FMul and TrigMul show.    *)
(*  - cos and sin are Taylor polynomials on angles of 2^-12 rad            *)
(*    resolution, with results in units of 2^-12.                          *)
(***************************************************************************)
EXTENDS Integers, Sequences, FiniteSets, TLC

\* ------------------------------------------------------------------ bounds
MaxTicks == 2
MaxSpeedOps == 1
MaxElapsed == 1
\* Segments of one orbit line (the source draws 10000).
SegmentCount == 4

\* ------------------------------------------------------- number formats
FixedOne == 10^4
AngleUnitsPerF32 == 2^10
TrigOne == 2^12
AngleUnitsPerTrig == 2^15

\* Number of binary digits of n beyond 24 (n >= 0, n < 2^31).
F32Shift(n) ==
  IF n < 2^24 THEN 0 ELSE IF n < 2^25 THEN 1 ELSE IF n < 2^26 THEN 2
  ELSE IF n < 2^27 THEN 3 ELSE IF n < 2^28 THEN 4 ELSE IF n < 2^29 THEN 5
  ELSE IF n < 2^30 THEN 6 ELSE 7

\* Round a non-negative exact result to 24 significant bits, ties to even.
F32RoundPos(n) ==
  LET u == 2^F32Shift(n)
      q == n \div u
      r == n % u
      up == (2 * r > u) \/ (2 * r = u /\ q % 2 = 1)
  IN  (IF up THEN q + 1 ELSE q) * u

F32Round(n) == IF n < 0 THEN 0 - F32RoundPos(0 - n) ELSE F32RoundPos(n)

\* binary32 addition and subtraction of values in units of 2^-37.
F32Add(a, b) == F32Round(a + b)
F32Sub(a, b) == F32Round(a - b)

\* Product of a factor a in units of 10^-4 and a quantity b in any unit,
\* truncated to b's unit; split so that no intermediate result overflows.
FMul(a, b) ==
  LET ah == a \div FixedOne
      al == a % FixedOne
      bh == b \div FixedOne
      bl == b % FixedOne
  IN  ah * b + al * bh + (al * bl) \div FixedOne

\* An exact binary32 speed (units 2^-37) as an angle (units 2^-27 rad).
ToAngle(f) == f \div AngleUnitsPerF32

\* cos and sin of an angle in units of 2^-27 rad; result in units of 2^-12.
TrigArg(a) == (a + AngleUnitsPerTrig \div 2) \div AngleUnitsPerTrig
TrigSq(x) == (x * x) \div TrigOne
Cos(a) ==
  LET x2 == TrigSq(TrigArg(a))
  IN  TrigOne - (x2 \div 2) + ((x2 * x2) \div TrigOne) \div 24
Sin(a) ==
  LET x == TrigArg(a)
      x3 == (TrigSq(x) * x) \div TrigOne
      x5 == (TrigSq(x) * x3) \div TrigOne
  IN  x - (x3 \div 6) + (x5 \div 120)

\* distance (units 10^-2) times a cos/sin value: a translation (units 10^-2).
TrigMul(d, c) == (d * c) \div TrigOne

\* ------------------------------------------------------ program constants
XM_PI == 31416
SpeedStep == 13743895
SpeedUpperClamp == 687194752
SpeedLowerClamp == 13743895
DefaultOrbitalPeriod == 343597376
RotationStep == XM_PI \div 26
SunScale == 10000
SunSpinDivisor == 1000

Members ==
  {"Mercury", "Venus", "Earth", "Moon", "Mars",
   "Jupiter", "Saturn", "Uranus", "Neptune", "Pluto"}

Identity == [x |-> 0, z |-> 0]
IdentityWorld == [Scale |-> FixedOne, RotationY |-> 0, RotationZ |-> 0, Translation |-> Identity]

\* CelestialBody with the default member initialisers (these are Earth's).
CelestialBody ==
  [Name |-> "", Location |-> Identity, WorldMatrix |-> IdentityWorld,
   OrbitalPeriod |-> DefaultOrbitalPeriod, CurrentOrbitDegrees |-> 0,
   CurrentRotation |-> 0, OrbitalDistance |-> 4000,
   RotationalPeriod |-> XM_PI, AxialTilt |-> 2611, Scale |-> 4000]

\* A body given by aggregate initialisation, as the header writes them.
MakeBody(name, orbitalPeriod, distance, rotationalPeriod, tilt, scale) ==
  [Name |-> name, Location |-> Identity, WorldMatrix |-> IdentityWorld,
   OrbitalPeriod |-> orbitalPeriod, CurrentOrbitDegrees |-> 0,
   CurrentRotation |-> 0, OrbitalDistance |-> distance,
   RotationalPeriod |-> rotationalPeriod, AxialTilt |-> tilt, Scale |-> scale]

Constructed ==
  [m \in Members |->
     CASE m = "Earth"   -> CelestialBody
       [] m = "Moon"    -> MakeBody("Moon", 133700, 320, 10000, 744, 1000)
       [] m = "Mercury" -> MakeBody("Mercury", 41494, 1548, 171, 1, 1528)
       [] m = "Venus"   -> MakeBody("Venus", 16260, 2892, 41, 19711, 3796)
       [] m = "Mars"    -> MakeBody("Mars", 5319, 6092, 9749, 2800, 2128)
       [] m = "Jupiter" -> MakeBody("Jupiter", 843, 20820, 24408, 344, 44760)
       [] m = "Saturn"  -> MakeBody("Saturn", 340, 38328, 23452, 2967, 37040)
       [] m = "Uranus"  -> MakeBody("Uranus", 119, 76800, 13953, 10867, 16040)
       [] m = "Neptune" -> MakeBody("Neptune", 61, 120200, 14898, 3144, 15520)
       [] m = "Pluto"   -> MakeBody("Pluto", 40, 157920, 1566, 13611, 720)]

\* ------------------------------------------------------------------ state
VARIABLES
  body,               \* member name -> CelestialBody
  OrbitalSpeed,       \* the public mirror shown on screen
  IsAnimationEnabled,
  UpdateMaterial,     \* the dirty flag
  SunCurrentRotation,
  SunWorldMatrix,
  Material,           \* member name -> transforms last pushed to its material
  SunMaterial,        \* transforms last pushed to the Sun's material
  ViewProjection,     \* the camera's view-projection matrix
  OrbitVertexBuffer,  \* index -> vertex of the orbit lines
  lastOp,             \* history: the call made last
  ticks,              \* history: Update calls made with animation enabled
  speedOps            \* history: SpeedUp and SlowDown calls made

vars ==
  <<body, OrbitalSpeed, IsAnimationEnabled, UpdateMaterial, SunCurrentRotation,
    SunWorldMatrix, Material, SunMaterial, ViewProjection, OrbitVertexBuffer,
    lastOp, ticks, speedOps>>

\* The view-projection matrices the camera takes: where it starts and where
\* the user has moved or re-projected it to.
CameraViews == {"initial", "moved"}

ElapsedChoices == {k * FixedOne : k \in 0..MaxElapsed}

NoTransforms == [pushed |-> FALSE]

\* The speed triple is all that SpeedUp and SlowDown touch.
SpeedState(B, speed) ==
  [OrbitalSpeed |-> speed, OrbitalPeriod |-> B["Earth"].OrbitalPeriod,
   RotationalPeriod |-> B["Earth"].RotationalPeriod]

\* ------------------------------------------------------------- operations
\* CreateBody: Location = identity, WorldMatrix = scaling * Location.
CreateBody(b) ==
  [b EXCEPT !.Location = Identity,
            !.WorldMatrix = [Scale |-> b.Scale, RotationY |-> 0, RotationZ |-> 0,
                             Translation |-> Identity]]

\* A variant with no upper clamp.
SpeedUpOnUnclamped(s) ==
  [OrbitalSpeed |-> F32Add(s.OrbitalSpeed, SpeedStep),
   OrbitalPeriod |-> F32Add(s.OrbitalPeriod, SpeedStep),
   RotationalPeriod |-> s.RotationalPeriod + RotationStep]

\* A variant that forgets the on-screen mirror.
SpeedUpOnNoMirror(s) ==
  IF F32Add(s.OrbitalPeriod, SpeedStep) < SpeedUpperClamp
  THEN [OrbitalSpeed |-> s.OrbitalSpeed,
        OrbitalPeriod |-> F32Add(s.OrbitalPeriod, SpeedStep),
        RotationalPeriod |-> s.RotationalPeriod + RotationStep]
  ELSE s

\* SpeedUp on the speed triple.
SpeedUpOn(s) ==
  IF F32Add(s.OrbitalPeriod, SpeedStep) < SpeedUpperClamp
  THEN [OrbitalSpeed |-> F32Add(s.OrbitalSpeed, SpeedStep),
        OrbitalPeriod |-> F32Add(s.OrbitalPeriod, SpeedStep),
        RotationalPeriod |-> s.RotationalPeriod + RotationStep]
  ELSE s

\* A variant with no lower clamp.
SlowDownOnUnclamped(s) ==
  [OrbitalSpeed |-> F32Sub(s.OrbitalSpeed, SpeedStep),
   OrbitalPeriod |-> F32Sub(s.OrbitalPeriod, SpeedStep),
   RotationalPeriod |-> s.RotationalPeriod - RotationStep]

\* SlowDown on the speed triple.
SlowDownOn(s) ==
  IF F32Sub(s.OrbitalPeriod, SpeedStep) >= SpeedLowerClamp
  THEN [OrbitalSpeed |-> F32Sub(s.OrbitalSpeed, SpeedStep),
        OrbitalPeriod |-> F32Sub(s.OrbitalPeriod, SpeedStep),
        RotationalPeriod |-> s.RotationalPeriod - RotationStep]
  ELSE s

WithSpeed(B, s) ==
  [B EXCEPT !["Earth"].OrbitalPeriod = s.OrbitalPeriod,
            !["Earth"].RotationalPeriod = s.RotationalPeriod]

\* A variant that scales every body, Earth included, by Earth's period.
RotationIncrementAllScaled(t, b, earth) ==
  FMul(FMul(t, b.RotationalPeriod), earth.RotationalPeriod)

\* The rotation a body gains in one Orbit call.
RotationIncrement(t, b, earth) ==
  IF b.Name # earth.Name
  THEN FMul(FMul(t, b.RotationalPeriod), earth.RotationalPeriod)
  ELSE FMul(t, b.RotationalPeriod)

\* The translation Orbit computes, from the angles as they stand at the call.
OrbitOffset(b, target) ==
  IF target.Name # b.Name
  THEN [x |-> target.Location.x
              + TrigMul(b.OrbitalDistance,
                        Cos(b.CurrentOrbitDegrees + target.CurrentOrbitDegrees)),
        z |-> target.Location.z
              + TrigMul(b.OrbitalDistance,
                        Sin(b.CurrentOrbitDegrees + target.CurrentOrbitDegrees))]
  ELSE [x |-> 0 - TrigMul(b.OrbitalDistance, Cos(b.CurrentOrbitDegrees)),
        z |-> 0 - TrigMul(b.OrbitalDistance, Sin(b.CurrentOrbitDegrees))]

\* The amount Orbit takes off a body's orbital angle.
OrbitDecrement(b, earth) ==
  IF b.Name # earth.Name
  THEN FMul(b.OrbitalPeriod, ToAngle(earth.OrbitalPeriod))
  ELSE ToAngle(b.OrbitalPeriod)

\* A variant that takes the decrement off the angle before it computes the
\* translation.
OrbitDecrementFirst(B, t, m, targetName) ==
  LET rotation == B[m].CurrentRotation + RotationIncrement(t, B[m], B["Earth"])
      B1 == [B EXCEPT ![m].CurrentRotation = rotation]
      world == [Scale |-> B1[m].Scale, RotationY |-> B1[m].CurrentRotation,
                RotationZ |-> B1[m].AxialTilt, Translation |-> B1[m].Location]
      B2 == [B1 EXCEPT ![m].WorldMatrix = world]
      B3 == [B2 EXCEPT ![m].CurrentOrbitDegrees =
                          @ - OrbitDecrement(B2[m], B2["Earth"])]
      Offset == OrbitOffset(B3[m], B3[targetName])
  IN  [B3 EXCEPT ![m].Location = Offset]

\* Orbit(gameTime, Body, SatelliteTarget) on the registry B: the statements
\* in source order; each LET line reads the fields as the earlier ones left them.
Orbit(B, t, m, targetName) ==
  LET rotation == B[m].CurrentRotation + RotationIncrement(t, B[m], B["Earth"])
      B1 == [B EXCEPT ![m].CurrentRotation = rotation]
      world == [Scale |-> B1[m].Scale, RotationY |-> B1[m].CurrentRotation,
                RotationZ |-> B1[m].AxialTilt, Translation |-> B1[m].Location]
      B2 == [B1 EXCEPT ![m].WorldMatrix = world]
      Offset == OrbitOffset(B2[m], B2[targetName])
      B3 == [B2 EXCEPT ![m].CurrentOrbitDegrees =
                          @ - OrbitDecrement(B2[m], B2["Earth"])]
  IN  [B3 EXCEPT ![m].Location = Offset]

\* A variant that advances the Moon before Earth.
OrbitCallsMoonFirst ==
  << <<"Mercury", "Mercury">>, <<"Venus", "Venus">>, <<"Moon", "Earth">>,
     <<"Earth", "Earth">>, <<"Mars", "Mars">>, <<"Jupiter", "Jupiter">>,
     <<"Saturn", "Saturn">>, <<"Uranus", "Uranus">>, <<"Neptune", "Neptune">>,
     <<"Pluto", "Pluto">> >>

\* A variant that leaves the Moon out, as the orbit-line list does.
OrbitCallsWithoutMoon ==
  << <<"Mercury", "Mercury">>, <<"Venus", "Venus">>, <<"Earth", "Earth">>,
     <<"Mars", "Mars">>, <<"Jupiter", "Jupiter">>,
     <<"Saturn", "Saturn">>, <<"Uranus", "Uranus">>, <<"Neptune", "Neptune">>,
     <<"Pluto", "Pluto">> >>

\* The ten Orbit calls of Update, in source order: <<body, satellite target>>.
OrbitCalls ==
  << <<"Mercury", "Mercury">>, <<"Venus", "Venus">>, <<"Earth", "Earth">>,
     <<"Moon", "Earth">>, <<"Mars", "Mars">>, <<"Jupiter", "Jupiter">>,
     <<"Saturn", "Saturn">>, <<"Uranus", "Uranus">>, <<"Neptune", "Neptune">>,
     <<"Pluto", "Pluto">> >>

RECURSIVE OrbitAll(_, _, _)
OrbitAll(B, t, n) ==
  IF n = 0 THEN B
  ELSE Orbit(OrbitAll(B, t, n - 1), t, OrbitCalls[n][1], OrbitCalls[n][2])

\* World * ViewProjection, kept as the pair of its factors.
WorldViewProjection(world) == [world |-> world, viewProjection |-> ViewProjection]

\* UpdateBody: the transforms pushed to a body's material.
UpdateBody(b) ==
  [pushed |-> TRUE, wvp |-> WorldViewProjection(b.WorldMatrix),
   world |-> b.WorldMatrix]

\* ------------------------------------------------------------ orbit lines
\* The bodies that get an orbit line: copies of the members as constructed.
Bodies ==
  << Constructed["Mercury"], Constructed["Venus"], Constructed["Earth"],
     Constructed["Mars"], Constructed["Jupiter"], Constructed["Saturn"],
     Constructed["Uranus"], Constructed["Neptune"], Constructed["Pluto"] >>

\* j * XM_2PI / SegmentCount, in units of 2^-12 rad.
PathAngle(j) == FMul((j * 2 * XM_PI) \div SegmentCount, TrigOne)

\* cos and sin over the whole circle: the angle is taken to the nearest
\* multiple of pi/2 and the polynomials are used on the rest.
HalfPi == FMul(XM_PI \div 2, TrigOne)
PathQuadrant(x) == ((x + HalfPi \div 2) \div HalfPi) % 4
PathRest(x) == (x - ((x + HalfPi \div 2) \div HalfPi) * HalfPi) * AngleUnitsPerTrig
PathCos(x) ==
  CASE PathQuadrant(x) = 0 -> Cos(PathRest(x))
    [] PathQuadrant(x) = 1 -> 0 - Sin(PathRest(x))
    [] PathQuadrant(x) = 2 -> 0 - Cos(PathRest(x))
    [] PathQuadrant(x) = 3 -> Sin(PathRest(x))
PathSin(x) ==
  CASE PathQuadrant(x) = 0 -> Sin(PathRest(x))
    [] PathQuadrant(x) = 1 -> Cos(PathRest(x))
    [] PathQuadrant(x) = 2 -> 0 - Sin(PathRest(x))
    [] PathQuadrant(x) = 3 -> 0 - Cos(PathRest(x))

\* VertexPosition(Offset) for segment j of the orbit line of Bodies[i]
\* (i counts from 0, as the source does).
OrbitVertex(i, j) ==
  [x |-> TrigMul(Bodies[i + 1].OrbitalDistance, PathCos(PathAngle(j))),
   y |-> 0,
   z |-> TrigMul(Bodies[i + 1].OrbitalDistance, PathSin(PathAngle(j)))]

\* A variant that lays the vertices out segment by segment, not body by body.
RECURSIVE OrbitLineSegmentMajor(_, _, _)
OrbitLineSegmentMajor(vertices, i, n) ==
  IF n = 0 THEN vertices
  ELSE [OrbitLineSegmentMajor(vertices, i, n - 1)
          EXCEPT ![i + (n - 1) * Len(Bodies)] = OrbitVertex(i, n - 1)]

\* The inner loop: segments 0 .. n-1 of body i written to vertices.
RECURSIVE OrbitLine(_, _, _)
OrbitLine(vertices, i, n) ==
  IF n = 0 THEN vertices
  ELSE [OrbitLine(vertices, i, n - 1)
          EXCEPT ![(n - 1) + i * SegmentCount] = OrbitVertex(i, n - 1)]

\* The outer loop: the orbit lines of bodies 0 .. n-1.
RECURSIVE OrbitLines(_, _)
OrbitLines(vertices, n) ==
  IF n = 0 THEN vertices
  ELSE OrbitLine(OrbitLines(vertices, n - 1), n - 1, SegmentCount)

\* InitializeOrbitLines: the immutable vertex buffer it creates.
InitializeOrbitLines ==
  OrbitLines([k \in 0 .. (SegmentCount * Len(Bodies) - 1) |-> "unwritten"],
             Len(Bodies))

\* ------------------------------------------------------------------- Init
\* The state after Initialize().  The program can be paused on its first
\* frame and G or H pressed any number of times before the first tick: the
\* speed triple then is the constructed one after that many presses, and
\* nothing else has moved.  Three such states are taken: no press, G pressed
\* until the upper clamp holds and H pressed until the lower clamp holds.
Created == [m \in Members |-> CreateBody(Constructed[m])]

Initialized == SpeedState(Created, DefaultOrbitalPeriod)

\* Five presses of G, and five of H.
SpeedUp5(s) == SpeedUpOn(SpeedUpOn(SpeedUpOn(SpeedUpOn(SpeedUpOn(s)))))
SlowDown5(s) == SlowDownOn(SlowDownOn(SlowDownOn(SlowDownOn(SlowDownOn(s)))))

\* G pressed 5, 10, ..., 30 times: the upper clamp has refused the last ones.
PressedUp5 == SpeedUp5(Initialized)
PressedUp10 == SpeedUp5(PressedUp5)
PressedUp15 == SpeedUp5(PressedUp10)
PressedUp20 == SpeedUp5(PressedUp15)
PressedUp25 == SpeedUp5(PressedUp20)
PressedUp30 == SpeedUp5(PressedUp25)

\* H pressed 5, 10, ..., 30 times: the lower clamp has refused the last ones.
PressedDown5 == SlowDown5(Initialized)
PressedDown10 == SlowDown5(PressedDown5)
PressedDown15 == SlowDown5(PressedDown10)
PressedDown20 == SlowDown5(PressedDown15)
PressedDown25 == SlowDown5(PressedDown20)
PressedDown30 == SlowDown5(PressedDown25)

StartSpeeds == {Initialized, PressedUp30, PressedDown30}

Init ==
  \E s \in StartSpeeds :
    /\ body = WithSpeed(Created, s)
    /\ OrbitalSpeed = s.OrbitalSpeed
    /\ IsAnimationEnabled = TRUE
    /\ UpdateMaterial = TRUE
    /\ SunCurrentRotation = 0
    /\ SunWorldMatrix = [RotationY |-> 0, Scale |-> FixedOne]
    /\ Material = [m \in Members |-> NoTransforms]
    /\ SunMaterial = NoTransforms
    /\ ViewProjection = "initial"
    /\ OrbitVertexBuffer = InitializeOrbitLines
    /\ lastOp = [op |-> "Initialize", elapsed |-> 0, changed |-> FALSE]
    /\ ticks = 0
    /\ speedOps = 0

\* ---------------------------------------------------------------- actions
\* A variant that reports the animation as always running.
AnimationEnabledAlways == TRUE

AnimationEnabled == IsAnimationEnabled

ToggleAnimation ==
  /\ IsAnimationEnabled' = ~IsAnimationEnabled
  /\ lastOp' = [op |-> "ToggleAnimation", elapsed |-> 0, changed |-> TRUE]
  /\ UNCHANGED <<body, OrbitalSpeed, UpdateMaterial, SunCurrentRotation,
                 SunWorldMatrix, Material, SunMaterial, ViewProjection,
                 OrbitVertexBuffer, ticks,
                 speedOps>>

SpeedUp ==
  /\ speedOps < MaxSpeedOps
  /\ LET s == SpeedUpOn(SpeedState(body, OrbitalSpeed))
     IN  /\ body' = WithSpeed(body, s)
         /\ OrbitalSpeed' = s.OrbitalSpeed
         /\ lastOp' = [op |-> "SpeedUp", elapsed |-> 0,
                       changed |-> s # SpeedState(body, OrbitalSpeed)]
  /\ speedOps' = speedOps + 1
  /\ UNCHANGED <<IsAnimationEnabled, UpdateMaterial, SunCurrentRotation,
                 SunWorldMatrix, Material, SunMaterial, ViewProjection,
                 OrbitVertexBuffer, ticks>>

SlowDown ==
  /\ speedOps < MaxSpeedOps
  /\ LET s == SlowDownOn(SpeedState(body, OrbitalSpeed))
     IN  /\ body' = WithSpeed(body, s)
         /\ OrbitalSpeed' = s.OrbitalSpeed
         /\ lastOp' = [op |-> "SlowDown", elapsed |-> 0,
                       changed |-> s # SpeedState(body, OrbitalSpeed)]
  /\ speedOps' = speedOps + 1
  /\ UNCHANGED <<IsAnimationEnabled, UpdateMaterial, SunCurrentRotation,
                 SunWorldMatrix, Material, SunMaterial, ViewProjection,
                 OrbitVertexBuffer, ticks>>

\* A variant that leaves the dirty flag to the camera's callbacks alone.
UpdateWithoutDirty(t) ==
  /\ AnimationEnabled => ticks < MaxTicks
  /\ IF AnimationEnabled
     THEN /\ body' = OrbitAll(body, t, Len(OrbitCalls))
          /\ SunCurrentRotation' =
               SunCurrentRotation + body'["Earth"].RotationalPeriod \div SunSpinDivisor
          /\ SunWorldMatrix' = [RotationY |-> SunCurrentRotation', Scale |-> SunScale]
          /\ ticks' = ticks + 1
     ELSE UNCHANGED <<body, SunCurrentRotation, SunWorldMatrix, ticks>>
  /\ UpdateMaterial' = UpdateMaterial
  /\ lastOp' = [op |-> "Update", elapsed |-> t, changed |-> AnimationEnabled]
  /\ UNCHANGED <<OrbitalSpeed, IsAnimationEnabled, Material, SunMaterial,
                 ViewProjection, OrbitVertexBuffer, speedOps>>

Update(t) ==
  /\ AnimationEnabled => ticks < MaxTicks
  /\ IF AnimationEnabled
     THEN /\ body' = OrbitAll(body, t, Len(OrbitCalls))
          /\ SunCurrentRotation' =
               SunCurrentRotation + body'["Earth"].RotationalPeriod \div SunSpinDivisor
          /\ SunWorldMatrix' = [RotationY |-> SunCurrentRotation', Scale |-> SunScale]
          /\ ticks' = ticks + 1
     ELSE UNCHANGED <<body, SunCurrentRotation, SunWorldMatrix, ticks>>
  /\ UpdateMaterial' = TRUE
  /\ lastOp' = [op |-> "Update", elapsed |-> t, changed |-> AnimationEnabled]
  /\ UNCHANGED <<OrbitalSpeed, IsAnimationEnabled, Material, SunMaterial,
                 ViewProjection, OrbitVertexBuffer, speedOps>>

\* A variant that pushes the transforms and forgets to clear the flag.
DrawLeavesDirty ==
  /\ IF UpdateMaterial
     THEN /\ Material' = [m \in Members |-> UpdateBody(body[m])]
          /\ SunMaterial' = [pushed |-> TRUE,
                             wvp |-> WorldViewProjection(SunWorldMatrix),
                             world |-> SunWorldMatrix]
          /\ UpdateMaterial' = UpdateMaterial
     ELSE UNCHANGED <<Material, SunMaterial, UpdateMaterial>>
  /\ lastOp' = [op |-> "Draw", elapsed |-> 0, changed |-> UpdateMaterial]
  /\ UNCHANGED <<body, OrbitalSpeed, IsAnimationEnabled, SunCurrentRotation,
                 SunWorldMatrix, ViewProjection,
                 OrbitVertexBuffer, ticks, speedOps>>

Draw ==
  /\ IF UpdateMaterial
     THEN /\ Material' = [m \in Members |-> UpdateBody(body[m])]
          /\ SunMaterial' = [pushed |-> TRUE,
                             wvp |-> WorldViewProjection(SunWorldMatrix),
                             world |-> SunWorldMatrix]
          /\ UpdateMaterial' = FALSE
     ELSE UNCHANGED <<Material, SunMaterial, UpdateMaterial>>
  /\ lastOp' = [op |-> "Draw", elapsed |-> 0, changed |-> UpdateMaterial]
  /\ UNCHANGED <<body, OrbitalSpeed, IsAnimationEnabled, SunCurrentRotation,
                 SunWorldMatrix, ViewProjection,
                 OrbitVertexBuffer, ticks, speedOps>>

\* updateMaterialFunc, the callback the camera runs when its view or its
\* projection matrix has been updated (to a new value or to the same one).
MatrixUpdated ==
  /\ \E v \in CameraViews : ViewProjection' = v
  /\ UpdateMaterial' = TRUE
  /\ lastOp' = [op |-> "MatrixUpdated", elapsed |-> 0, changed |-> ~UpdateMaterial]
  /\ UNCHANGED <<body, OrbitalSpeed, IsAnimationEnabled, SunCurrentRotation,
                 SunWorldMatrix, Material, SunMaterial, OrbitVertexBuffer,
                 ticks, speedOps>>

Next ==
  \/ ToggleAnimation
  \/ SpeedUp
  \/ SlowDown
  \/ \E t \in ElapsedChoices : Update(t)
  \/ Draw
  \/ MatrixUpdated

Spec == Init /\ [][Next]_vars

\* ================================================================= claims
Earth == body["Earth"]

\* What a call may not touch when it only changes the speed triple.
SpeedCallFrame ==
  /\ body' = WithSpeed(body, SpeedState(body', OrbitalSpeed'))
  /\ UNCHANGED <<IsAnimationEnabled, UpdateMaterial, SunCurrentRotation,
                 SunWorldMatrix, Material, SunMaterial, ViewProjection,
                 OrbitVertexBuffer, ticks>>

\* C1: while animation is disabled, an Update call with any elapsed time
\* leaves every body (rotation, orbital angle, location, world matrix and
\* every other field) and the Sun's rotation and world matrix unchanged.
C1_DisabledUpdateFreezes ==
  [][(lastOp'.op = "Update" /\ ~IsAnimationEnabled)
       => /\ body' = body
          /\ SunCurrentRotation' = SunCurrentRotation
          /\ SunWorldMatrix' = SunWorldMatrix
          /\ ticks' = ticks]_vars

\* C1 witness: a disabled Update with a positive elapsed time was made after
\* the bodies had already moved.
C1_Witness ==
  /\ lastOp.op = "Update" /\ ~lastOp.changed /\ lastOp.elapsed > 0
  /\ ~IsAnimationEnabled
  /\ ticks > 0

\* C2: SpeedUp changes state iff Earth.OrbitalPeriod + 0.0001 < 0.005 (in
\* binary32); then it adds 0.0001 to Earth.OrbitalPeriod and to OrbitalSpeed
\* and pi/26 to Earth.RotationalPeriod; otherwise nothing changes.  From
\* 0.0025 the period becomes the binary32 0.0026; at the binary32 0.0049 the
\* call is a no-op.
C2_SpeedUpClamp ==
  /\ SpeedUpOn([OrbitalSpeed |-> 673450880, OrbitalPeriod |-> 673450880,
                RotationalPeriod |-> XM_PI])
       = [OrbitalSpeed |-> 673450880, OrbitalPeriod |-> 673450880,
          RotationalPeriod |-> XM_PI]
  /\ [][(lastOp'.op = "SpeedUp" /\ speedOps' # speedOps)
          => /\ SpeedCallFrame
             /\ IF F32Add(Earth.OrbitalPeriod, SpeedStep) < SpeedUpperClamp
                THEN /\ body'["Earth"].OrbitalPeriod
                          = F32Add(Earth.OrbitalPeriod, SpeedStep)
                     /\ OrbitalSpeed' = F32Add(OrbitalSpeed, SpeedStep)
                     /\ body'["Earth"].RotationalPeriod
                          = Earth.RotationalPeriod + XM_PI \div 26
                     /\ body'["Earth"].OrbitalPeriod > Earth.OrbitalPeriod
                     /\ Earth.OrbitalPeriod = DefaultOrbitalPeriod
                          => body'["Earth"].OrbitalPeriod = 357341280
                ELSE /\ body' = body
                     /\ OrbitalSpeed' = OrbitalSpeed]_vars

\* C2 witness: a SpeedUp call was refused by the upper clamp.
C2_Witness ==
  /\ lastOp.op = "SpeedUp" /\ ~lastOp.changed
  /\ ~(F32Add(Earth.OrbitalPeriod, SpeedStep) < SpeedUpperClamp)

\* C3: SlowDown changes state iff Earth.OrbitalPeriod - 0.0001 >= 0.0001 (in
\* binary32); then it takes 0.0001 off Earth.OrbitalPeriod and OrbitalSpeed
\* and pi/26 off Earth.RotationalPeriod; otherwise nothing changes.  From
\* 0.0025 the period becomes 0.0024 (to within 2^-32); at the binary32 0.0001
\* the call is a no-op.
C3_SlowDownClamp ==
  /\ SlowDownOn([OrbitalSpeed |-> SpeedStep, OrbitalPeriod |-> SpeedStep,
                 RotationalPeriod |-> XM_PI])
       = [OrbitalSpeed |-> SpeedStep, OrbitalPeriod |-> SpeedStep,
          RotationalPeriod |-> XM_PI]
  /\ [][(lastOp'.op = "SlowDown" /\ speedOps' # speedOps)
          => /\ SpeedCallFrame
             /\ IF F32Sub(Earth.OrbitalPeriod, SpeedStep) >= SpeedLowerClamp
                THEN /\ body'["Earth"].OrbitalPeriod
                          = F32Sub(Earth.OrbitalPeriod, SpeedStep)
                     /\ OrbitalSpeed' = F32Sub(OrbitalSpeed, SpeedStep)
                     /\ body'["Earth"].RotationalPeriod
                          = Earth.RotationalPeriod - XM_PI \div 26
                     /\ body'["Earth"].OrbitalPeriod < Earth.OrbitalPeriod
                     /\ Earth.OrbitalPeriod = DefaultOrbitalPeriod
                          => body'["Earth"].OrbitalPeriod = 329853472
                ELSE /\ body' = body
                     /\ OrbitalSpeed' = OrbitalSpeed]_vars

\* C3 witness: a SlowDown call was refused by the lower clamp.
C3_Witness ==
  /\ lastOp.op = "SlowDown" /\ ~lastOp.changed
  /\ ~(F32Sub(Earth.OrbitalPeriod, SpeedStep) >= SpeedLowerClamp)

\* C4: in every reachable state OrbitalSpeed equals Earth.OrbitalPeriod.
C4_SpeedMirrorsEarth == OrbitalSpeed = Earth.OrbitalPeriod

\* C4 witness: the speed was changed, the bodies were advanced and drawn.
C4_Witness ==
  /\ lastOp.op = "Draw" /\ lastOp.changed
  /\ ticks > 0
  /\ speedOps > 0
  /\ OrbitalSpeed \notin {s.OrbitalSpeed : s \in StartSpeeds}

\* A step that is an Update call made with animation enabled.
EnabledUpdateStep == lastOp'.op = "Update" /\ IsAnimationEnabled /\ ticks' # ticks

\* The last call was an Update made with animation enabled.
Advanced == lastOp.op = "Update" /\ lastOp.changed

\* C5: one Orbit call with elapsed time t adds t * RotationalPeriod *
\* Earth.RotationalPeriod to the rotation of every body but Earth, with
\* Earth's period as it stands at the call, and t * Earth.RotationalPeriod
\* to Earth's.
C5_RotationIncrement ==
  [][EnabledUpdateStep
       => \A m \in Members :
            body'[m].CurrentRotation - body[m].CurrentRotation
              = IF m = "Earth"
                THEN FMul(lastOp'.elapsed, Earth.RotationalPeriod)
                ELSE FMul(FMul(lastOp'.elapsed, body[m].RotationalPeriod),
                          Earth.RotationalPeriod)]_vars

\* C5 witness: the bodies were advanced over a positive elapsed time after
\* a speed change had moved Earth's rotational period.
C5_Witness ==
  /\ Advanced /\ lastOp.elapsed > 0
  /\ speedOps > 0
  /\ Earth.RotationalPeriod \notin {s.RotationalPeriod : s \in StartSpeeds}
  /\ Earth.CurrentRotation > 0

FirstAdvanceAtDefaults ==
  /\ Advanced /\ lastOp.elapsed = FixedOne
  /\ ticks = 1
  /\ Earth.OrbitalPeriod = DefaultOrbitalPeriod
  /\ Earth.RotationalPeriod = XM_PI

\* C7 as stated: after the first one-second advance from the initial state
\* Earth's orbital angle is -0.0025, its rotation pi, and its location
\* (-40 cos(-0.0025), 0, -40 sin(-0.0025)): the translation of the angle as
\* it stands after the decrement.
C7_Original ==
  FirstAdvanceAtDefaults
    => /\ Earth.CurrentOrbitDegrees = 0 - ToAngle(DefaultOrbitalPeriod)
       /\ Earth.CurrentRotation = XM_PI
       /\ Earth.Location
            = [x |-> 0 - TrigMul(Earth.OrbitalDistance, Cos(Earth.CurrentOrbitDegrees)),
               z |-> 0 - TrigMul(Earth.OrbitalDistance, Sin(Earth.CurrentOrbitDegrees))]

\* C7 as amended: ... and its location (-40 cos(0), 0, -40 sin(0)) =
\* (-40, 0, 0): the translation of the angle as it stood before the
\* decrement.
C7_LocationFromAngleBeforeDecrement ==
  FirstAdvanceAtDefaults
    => /\ Earth.CurrentOrbitDegrees = 0 - ToAngle(DefaultOrbitalPeriod)
       /\ Earth.CurrentRotation = XM_PI
       /\ Earth.Location
            = [x |-> 0 - TrigMul(Earth.OrbitalDistance, Cos(0)),
               z |-> 0 - TrigMul(Earth.OrbitalDistance, Sin(0))]
       /\ Earth.Location = [x |-> 0 - Earth.OrbitalDistance, z |-> 0]

\* C7 witness: the first one-second advance from the initial state was made.
C7_Witness == FirstAdvanceAtDefaults /\ speedOps = 0

\* C8: in every enabled tick the Moon's location is Earth's location as
\* updated in that tick plus distance * (cos, 0, sin) of the Moon's angle at
\* its call plus Earth's angle as decremented in that tick.
C8_MoonFollowsEarth ==
  [][EnabledUpdateStep
       => LET theta == body["Moon"].CurrentOrbitDegrees
                         + body'["Earth"].CurrentOrbitDegrees
          IN  body'["Moon"].Location
                = [x |-> body'["Earth"].Location.x
                           + TrigMul(body["Moon"].OrbitalDistance, Cos(theta)),
                   z |-> body'["Earth"].Location.z
                           + TrigMul(body["Moon"].OrbitalDistance, Sin(theta))]]_vars

\* C8 witness: a second tick was made, in which Earth's location moved on
\* from the one the first tick had left.
C8_Witness ==
  /\ Advanced
  /\ ticks = 2
  /\ Earth.Location # Earth.WorldMatrix.Translation
  /\ Earth.WorldMatrix.Translation # Identity

\* C9 as stated: after every Orbit call the translation in the body's
\* WorldMatrix is that of its Location.
C9_WorldMatrixMatchesLocation ==
  \A m \in Members : body[m].WorldMatrix.Translation = body[m].Location

\* C10: over any interleaving of calls no body's rotation ever decreases and
\* no body's orbital angle ever increases, and Earth's rotational and
\* orbital periods stay above zero.
C10_MotionNeverReverses ==
  /\ [](Earth.RotationalPeriod > 0 /\ Earth.OrbitalPeriod > 0)
  /\ [][\A m \in Members :
          /\ body'[m].CurrentRotation >= body[m].CurrentRotation
          /\ body'[m].CurrentOrbitDegrees <= body[m].CurrentOrbitDegrees]_vars

\* C10 witness: the lower clamp refused a SlowDown call between two ticks.
C10_Witness ==
  /\ Advanced /\ ticks = 2
  /\ speedOps > 0
  /\ Earth.OrbitalPeriod = PressedDown30.OrbitalPeriod
  /\ Earth.RotationalPeriod = PressedDown30.RotationalPeriod

\* The order of advance the tick is to follow, and each body's target.
C11_Order ==
  <<"Mercury", "Venus", "Earth", "Moon", "Mars",
    "Jupiter", "Saturn", "Uranus", "Neptune", "Pluto">>

C11_Target(m) == IF m = "Moon" THEN "Earth" ELSE m

\* The first n bodies of C11_Order advanced once each, one after the other.
RECURSIVE C11_AdvanceInOrder(_, _, _)
C11_AdvanceInOrder(B, t, n) ==
  IF n = 0 THEN B
  ELSE Orbit(C11_AdvanceInOrder(B, t, n - 1), t,
             C11_Order[n], C11_Target(C11_Order[n]))

\* C11: every Update call made while animation is enabled advances each of
\* the ten bodies exactly once, in the order Mercury, Venus, Earth, Moon,
\* Mars, Jupiter, Saturn, Uranus, Neptune, Pluto (the Moon with Earth as its
\* target, the others with themselves), and after all ten adds
\* Earth.RotationalPeriod / 1000 to the Sun's rotation; a toggle or a speed
\* change is a call of its own made before the tick, so every step moves
\* either all ten bodies or none of them.
C11_AllTenInOrderThenSun ==
  /\ OrbitCalls
       = [n \in 1..10 |-> <<C11_Order[n], C11_Target(C11_Order[n])>>]
  /\ [][/\ EnabledUpdateStep
             => /\ body' = C11_AdvanceInOrder(body, lastOp'.elapsed, 10)
                /\ SunCurrentRotation'
                     = SunCurrentRotation
                         + body'["Earth"].RotationalPeriod \div 1000
                /\ body'["Earth"].RotationalPeriod = Earth.RotationalPeriod
        /\ \/ \A m \in Members :
                  body'[m].CurrentOrbitDegrees # body[m].CurrentOrbitDegrees
           \/ \A m \in Members :
                  /\ body'[m].CurrentOrbitDegrees = body[m].CurrentOrbitDegrees
                  /\ body'[m].CurrentRotation = body[m].CurrentRotation
                  /\ body'[m].Location = body[m].Location
                  /\ body'[m].WorldMatrix = body[m].WorldMatrix]_vars

\* C11 witness: a second tick over a positive elapsed time followed a speed
\* change, and the Moon, Pluto and the Sun have all moved twice.
C11_Witness ==
  /\ Advanced /\ lastOp.elapsed > 0
  /\ ticks = 2 /\ speedOps > 0
  /\ body["Moon"].CurrentOrbitDegrees
       < 0 - OrbitDecrement(body["Moon"], Earth)
  /\ body["Pluto"].CurrentOrbitDegrees < 0
  /\ SunCurrentRotation >= 2 * (PressedDown30.RotationalPeriod \div 1000)
  /\ SunCurrentRotation > 0

\* C12: a Draw call on a dirty frame pushes the transforms of all ten bodies
\* and of the Sun and then clears UpdateMaterial; a Draw call on a clean
\* frame pushes nothing; Draw never sets the flag, which turns true again
\* only in the camera's matrix-updated callback or in Update.
C12_DrawSynchronizesWhenDirty ==
  [][/\ lastOp'.op = "Draw"
          => /\ ~UpdateMaterial'
             /\ IF UpdateMaterial
                THEN /\ \A m \in Members :
                          /\ Material'[m].pushed
                          /\ Material'[m].world = body[m].WorldMatrix
                          /\ Material'[m].wvp
                               = [world |-> body[m].WorldMatrix,
                                  viewProjection |-> ViewProjection]
                     /\ SunMaterial'.pushed
                     /\ SunMaterial'.world = SunWorldMatrix
                     /\ SunMaterial'.wvp
                          = [world |-> SunWorldMatrix,
                             viewProjection |-> ViewProjection]
                ELSE Material' = Material /\ SunMaterial' = SunMaterial
     /\ (~UpdateMaterial /\ UpdateMaterial')
          => lastOp'.op \in {"MatrixUpdated", "Update"}]_vars

\* C12 witness: a Draw call found the frame clean, after an earlier one had
\* pushed the transforms of bodies that a tick had moved.
C12_Witness ==
  /\ lastOp.op = "Draw" /\ ~lastOp.changed
  /\ ~UpdateMaterial
  /\ ticks > 0
  /\ \A m \in Members : Material[m].pushed
  /\ SunMaterial.pushed

\* C13 as stated: Update marks the frame dirty only at the end of an enabled
\* tick; an Update call made while animation is disabled leaves
\* UpdateMaterial as it was, so that with animation disabled and the camera
\* still, the Draw calls after a synchronizing one push nothing.
C13_DisabledUpdateLeavesFlag ==
  [][(lastOp'.op = "Update" /\ ~IsAnimationEnabled)
       => UpdateMaterial' = UpdateMaterial]_vars

\* The point the claim gives for segment j of an orbit line of radius d.
C14_Point(d, j) ==
  [x |-> TrigMul(d, PathCos(PathAngle(j))), y |-> 0,
   z |-> TrigMul(d, PathSin(PathAngle(j)))]

\* The bodies that have an orbit line, in the order of their lines.
C14_LineOrder ==
  <<"Mercury", "Venus", "Earth", "Mars", "Jupiter",
    "Saturn", "Uranus", "Neptune", "Pluto">>

\* C14 as stated: the buffer built at initialization holds one orbit line
\* for each of the ten bodies that a tick advances, body i's SegmentCount
\* points at indices i*SegmentCount .. i*SegmentCount + SegmentCount - 1,
\* each (distance cos(2 pi j / SegmentCount), 0, distance sin(...)).
C14_Original ==
  /\ DOMAIN OrbitVertexBuffer = 0 .. (10 * SegmentCount - 1)
  /\ \A m \in Members :
       \E i \in 0 .. 9 :
         \A j \in 0 .. (SegmentCount - 1) :
           /\ (i * SegmentCount + j) \in DOMAIN OrbitVertexBuffer
           /\ OrbitVertexBuffer[i * SegmentCount + j]
                = C14_Point(body[m].OrbitalDistance, j)

\* The buffer the amended claim describes: nine lines, body-major.
C14_NineLines ==
  [k \in 0 .. (9 * SegmentCount - 1) |->
     C14_Point(Constructed[C14_LineOrder[k \div SegmentCount + 1]].OrbitalDistance,
               k % SegmentCount)]

\* The points a line for the Moon would be made of.
C14_MoonLine ==
  {C14_Point(Constructed["Moon"].OrbitalDistance, j) :
     j \in 0 .. (SegmentCount - 1)}

\* C14 as amended: the buffer holds one orbit line for each of the nine
\* bodies Mercury, Venus, Earth, Mars, Jupiter, Saturn, Uranus, Neptune,
\* Pluto (every body a tick advances but the Moon), in that order, body i's
\* points at indices i*SegmentCount .. i*SegmentCount + SegmentCount - 1,
\* each (distance cos(2 pi j / SegmentCount), 0, distance sin(...)) for that
\* body's orbital distance; no call rewrites the buffer.
C14_NineOrbitLines ==
  /\ [](/\ OrbitVertexBuffer = C14_NineLines
        /\ \A i \in 0 .. 8 :
             /\ body[C14_LineOrder[i + 1]].OrbitalDistance
                  = Constructed[C14_LineOrder[i + 1]].OrbitalDistance
             /\ OrbitVertexBuffer[i * SegmentCount].x
                  = body[C14_LineOrder[i + 1]].OrbitalDistance
        /\ \A k \in DOMAIN OrbitVertexBuffer :
             OrbitVertexBuffer[k] \notin C14_MoonLine)
  /\ [][OrbitVertexBuffer' = OrbitVertexBuffer]_vars

\* C14 witness: after a speed change, ticks and a synchronizing Draw the
\* buffer still starts Pluto's line, the last, at (distance, 0, 0).
C14_Witness ==
  /\ lastOp.op = "Draw" /\ lastOp.changed
  /\ ticks > 1 /\ speedOps > 0
  /\ OrbitVertexBuffer[8 * SegmentCount]
       = [x |-> body["Pluto"].OrbitalDistance, y |-> 0, z |-> 0]
  /\ OrbitVertexBuffer[3 * SegmentCount].x = body["Mars"].OrbitalDistance

\* C15: whenever UpdateMaterial is false, the transforms last pushed to each
\* body's material (and to the Sun's) are those of its current WorldMatrix
\* and the camera's current view-projection: every call that changes a
\* WorldMatrix or the view-projection leaves the flag set, and SpeedUp,
\* SlowDown and ToggleAnimation change no WorldMatrix.
C15_NoStaleTransforms ==
  /\ [](~UpdateMaterial
          => /\ \A m \in Members :
                  /\ Material[m].pushed
                  /\ Material[m].world = body[m].WorldMatrix
                  /\ Material[m].wvp
                       = [world |-> body[m].WorldMatrix,
                          viewProjection |-> ViewProjection]
             /\ SunMaterial.pushed
             /\ SunMaterial.world = SunWorldMatrix
             /\ SunMaterial.wvp
                  = [world |-> SunWorldMatrix,
                     viewProjection |-> ViewProjection])
  /\ [][/\ ((\E m \in Members : body'[m].WorldMatrix # body[m].WorldMatrix)
              \/ SunWorldMatrix' # SunWorldMatrix
              \/ ViewProjection' # ViewProjection)
             => UpdateMaterial'
        /\ lastOp'.op \in {"SpeedUp", "SlowDown", "ToggleAnimation"}
             => /\ \A m \in Members : body'[m].WorldMatrix = body[m].WorldMatrix
                /\ SunWorldMatrix' = SunWorldMatrix]_vars

\* C15 witness: the frame is clean after a Draw that synchronized bodies two
\* ticks had moved, seen through a camera that had moved as well.
C15_Witness ==
  /\ ~UpdateMaterial
  /\ lastOp.op = "Draw" /\ lastOp.changed
  /\ ticks = 2
  /\ ViewProjection = "moved"
  /\ Earth.WorldMatrix.Translation # Identity
  /\ Material["Earth"].world = Earth.WorldMatrix

====
